---- MODULE Spec2Model ----
(***************************************************************************)
(* A model of the dexmain Pokedex: the fetch stage (src/src/pull_data.py), *)
(* the loader (src/src/database.py), the query layer (src/src/backend.py)  *)
(* the start-up choice of the terminal UI (src/src/dex_tui.py) and its two *)
(* screens (src/src/screens.py).                                           *)
(*                                                                         *)
(* Text is modelled as a sequence of one-character strings, so that        *)
(* str(), lower() and capitalize() are computed and not assumed.           *)
(***************************************************************************)
EXTENDS Integers, Sequences, FiniteSets, TLC

VARIABLES
    \* ---- fetch stage, per item (pull_data.main)
    fpc,              \* position of main: "start", "gather", "written", "aborted"
    listed,           \* len(pokemon_list)
    task,             \* per listed item: "waiting", "running" or the outcome it returned with
    sem,              \* value of asyncio.Semaphore(50)
    doneq,            \* results of finished tasks, in completion order (as_completed)
    awaited,          \* number of tasks the as_completed loop has awaited
    all_pokemon_data, \* the list main appends to
    arrival,          \* history: the items in the order the loop awaited their tasks
    \* ---- fetch stage, counted (the same semaphore with a long master list)
    cWaiting, cRunning, cReturned,
    \* ---- files under data/
    dataDir,          \* the directory data/ exists
    jsonFile,         \* data/dex.json: [state |-> "absent" | "valid" | "corrupt", content |-> records]
    \* ---- the relational store data/pokedex.db
    dbFile,           \* the file data/pokedex.db exists
    db,               \* its content: whether the schema was created, the tables, sqlite_sequence
    ended,            \* how the last populate_db_from_json ended
    runs,             \* history: populate runs on the present file and store in a row (up to 2)
    seen,             \* history: the records processed by the loads committed to this store
    \* ---- the query layer and the terminal UI
    qcall,            \* the call into backend.py that has just returned: "get_all_pokemon",
                      \* "get_dex_entry", or "none" once something else ran
    qin,              \* its argument
    qres,             \* the value it returned
    screen,           \* the screen DexTUI.on_mount pushed: "none", "dex", "setup"
    \* ---- the browse screen (DexScreen)
    loader,           \* the worker of load_initial_data: "unmounted", "running", "posted", "done"
    pokemon_list,     \* the list that worker hands to update_pokemon_table
    all_pokemon,      \* self.all_pokemon, None while the attribute is not set
    table,            \* the rows of the DataTable, top to bottom
    search,           \* the value of the search Input
    workers,          \* the workers of fetch_pokemon_data, in the order they were started
    dex_entry,        \* what the DexEntryInfo pane shows
    art_display,      \* what the ArtDisplay pane shows
    \* ---- the setup screen (SetupScreen) and the pipeline it runs
    setup,            \* "idle", then the step data_pipeline.py is at: "fetch", "create",
                      \* "populate", then "exited" and, after on_setup_complete, "reported"
    return_code,      \* process.returncode of the pipeline
    setup_log,        \* the verdict on the Log: "none", "complete", "failed"
    fetched,          \* history: the fetch phase of this run wrote data/dex.json
    loaded            \* history: how populate_db_from_json ended in this run, or "notrun"

fetchVars == <<fpc, listed, task, sem, doneq, awaited, all_pokemon_data, arrival>>
semVars == <<cWaiting, cRunning, cReturned>>
fileVars == <<dataDir, jsonFile>>
storeVars == <<dbFile, db, ended, runs, seen>>
queryVars == <<qcall, qin, qres>>
browseVars == <<loader, pokemon_list, all_pokemon, table, search, workers, dex_entry, art_display>>
setupVars == <<setup, return_code, setup_log, fetched, loaded>>
uiVars == <<browseVars, setupVars>>
vars == <<fetchVars, semVars, fileVars, storeVars, queryVars, screen, uiVars>>

(***************************************************************************)
(* Bounds of the model.                                                    *)
(***************************************************************************)
\* entries of the master list in the per-item fetch model
NItems == 3
\* entries of the master list in the counted fetch model: above the semaphore's limit
MaxListed == 52
\* records of a data/dex.json the loader reads
MaxFileLen == 2
\* states of the random generator behind random.randint
RandSeeds == 2
\* rows the user selects on the browse screen in one session
MaxSelections == 2

(***************************************************************************)
(* Text.                                                                   *)
(***************************************************************************)
Digits == <<"0", "1", "2", "3", "4", "5", "6", "7", "8", "9">>

\* str(n) of a non-negative int: its decimal digits
RECURSIVE Str(_)
Str(n) == IF n < 10 THEN <<Digits[n + 1]>> ELSE Str(n \div 10) \o <<Digits[(n % 10) + 1]>>

UpperOf == ("a" :> "A") @@ ("b" :> "B") @@ ("e" :> "E") @@ ("k" :> "K") @@ ("m" :> "M")
           @@ ("r" :> "R") @@ ("u" :> "U") @@ ("w" :> "W")

\* str.lower() on one character
LowerChar(c) == IF \E l \in DOMAIN UpperOf : UpperOf[l] = c
                THEN CHOOSE l \in DOMAIN UpperOf : UpperOf[l] = c
                ELSE c

\* str.upper() on one character
UpperChar(c) == IF c \in DOMAIN UpperOf THEN UpperOf[c] ELSE c

\* str.lower()
Lower(s) == [i \in 1..Len(s) |-> LowerChar(s[i])]

\* str.capitalize(): first character upper-cased, the rest lower-cased
Capitalize(s) == [i \in 1..Len(s) |-> IF i = 1 THEN UpperChar(s[i]) ELSE LowerChar(s[i])]

(***************************************************************************)
(* Fetch stage: pull_data.py.                                              *)
(***************************************************************************)
\* asyncio.Semaphore(50)
SemLimit == 50

\* ascii_art when no sprite could be rendered
ArtNotAvailable == "Art not available."

\* Python's None
None == [none |-> TRUE]

\* no call into backend.py has just returned
NoCall == qcall' = "none" /\ qin' = <<>> /\ qres' = None

\* how one call of get_pokemon_details can end
Outcomes == {"detail_error", "species_error", "no_sprite", "art_error", "ok"}

\* the detail and species documents the API serves for the u-th entry of the master list
ApiRecord(u) ==
    [id |-> u,
     name |-> <<"m", "e", "w">> \o Str(u),
     types |-> <<"grass">>,
     abilities |-> <<"overgrow">>,
     height |-> 4 + u,
     weight |-> 40 + u,
     stats |-> ("hp" :> 45) @@ ("attack" :> 49) @@ ("defense" :> 49)
               @@ ("special-attack" :> 65) @@ ("special-defense" :> 65) @@ ("speed" :> 45),
     flavor_text |-> "flavor",
     ascii_art |-> "art"]

\* a version of get_pokemon_details that gives the item up when its art cannot be made
DetailsWithoutArtFallback(u, outcome) ==
    IF outcome \in {"detail_error", "species_error", "art_error"}
    THEN None
    ELSE [ApiRecord(u) EXCEPT !.ascii_art =
              IF outcome = "ok" THEN ApiRecord(u).ascii_art ELSE ArtNotAvailable]

\* get_pokemon_details: None when the detail or the species request fails, the record
\* otherwise; the placeholder art stays when there is no sprite or rendering it fails
get_pokemon_details(u, outcome) ==
    IF outcome \in {"detail_error", "species_error"}
    THEN None
    ELSE [ApiRecord(u) EXCEPT !.ascii_art =
              IF outcome = "ok" THEN ApiRecord(u).ascii_art ELSE ArtNotAvailable]

\* insertion of r into a list sorted by id, after the records with an equal id
RECURSIVE InsertById(_, _)
InsertById(r, s) ==
    IF s = <<>> THEN <<r>>
    ELSE IF r.id < Head(s).id THEN <<r>> \o s
    ELSE <<Head(s)>> \o InsertById(r, Tail(s))

\* a version of SortById that leaves the list in completion order
CompletionOrder(s) == s

\* list.sort(key=lambda p: p["id"]): a stable sort by id
RECURSIVE SortById(_)
SortById(s) == IF s = <<>> THEN <<>>
               ELSE InsertById(s[Len(s)], SortById(SubSeq(s, 1, Len(s) - 1)))

FetchInit ==
    /\ fpc = "start"
    /\ listed = 0
    /\ task = <<>>
    /\ sem = SemLimit
    /\ doneq = <<>>
    /\ awaited = 0
    /\ all_pokemon_data = <<>>
    /\ arrival = <<>>

\* main: the master list arrives with n entries and one task per entry is created
FetchList(n) ==
    /\ fpc = "start"
    /\ fpc' = "gather"
    /\ listed' = n
    /\ task' = [u \in 1..n |-> "waiting"]
    /\ UNCHANGED <<sem, doneq, awaited, all_pokemon_data, arrival, semVars, fileVars, storeVars, queryVars, screen, uiVars>>

\* main: the master list request fails; main returns without writing a file
ListFail ==
    /\ fpc = "start"
    /\ fpc' = "aborted"
    /\ UNCHANGED <<listed, task, sem, doneq, awaited, all_pokemon_data, arrival, semVars, fileVars, storeVars, queryVars, screen, uiVars>>

\* fetch_with_semaphore: "async with sem" is entered
Acquire(u) ==
    /\ fpc = "gather"
    /\ task[u] = "waiting"
    /\ sem > 0
    /\ sem' = sem - 1
    /\ task' = [task EXCEPT ![u] = "running"]
    /\ UNCHANGED <<fpc, listed, doneq, awaited, all_pokemon_data, arrival, semVars, fileVars, storeVars, queryVars, screen, uiVars>>

\* fetch_with_semaphore: get_pokemon_details returns, the semaphore is released and
\* the task is done
Return(u, outcome) ==
    /\ fpc = "gather"
    /\ task[u] = "running"
    /\ sem' = sem + 1
    /\ task' = [task EXCEPT ![u] = outcome]
    /\ doneq' = Append(doneq, [item |-> u, result |-> get_pokemon_details(u, outcome)])
    /\ UNCHANGED <<fpc, listed, awaited, all_pokemon_data, arrival, semVars, fileVars, storeVars, queryVars, screen, uiVars>>

\* main: one turn of the as_completed loop
Collect ==
    /\ fpc = "gather"
    /\ doneq # <<>>
    /\ all_pokemon_data' = IF Head(doneq).result # None
                           THEN Append(all_pokemon_data, Head(doneq).result)
                           ELSE all_pokemon_data
    /\ doneq' = Tail(doneq)
    /\ awaited' = awaited + 1
    /\ arrival' = Append(arrival, Head(doneq).item)
    /\ UNCHANGED <<fpc, listed, task, sem, semVars, fileVars, storeVars, queryVars, screen, uiVars>>

\* main: the loop is over; sort by id and write data/dex.json
WriteFile ==
    /\ fpc = "gather"
    /\ awaited = listed
    /\ fpc' = "written"
    /\ all_pokemon_data' = SortById(all_pokemon_data)
    /\ dataDir' = TRUE
    /\ jsonFile' = [state |-> "valid", content |-> SortById(all_pokemon_data)]
    /\ UNCHANGED <<listed, task, sem, doneq, awaited, arrival, semVars, storeVars, queryVars, screen, uiVars>>

(***************************************************************************)
(* The same semaphore with the tasks counted, not named: the master list   *)
(* is longer than the semaphore's limit.                                   *)
(***************************************************************************)
SemInit ==
    /\ FetchInit
    /\ cWaiting \in 0..MaxListed
    /\ cRunning = 0
    /\ cReturned = 0

\* a version of SemAcquire that enters the block without waiting for the semaphore
SemAcquireUnbounded ==
    /\ cWaiting > 0
    /\ sem' = sem - 1
    /\ cWaiting' = cWaiting - 1
    /\ cRunning' = cRunning + 1
    /\ UNCHANGED <<fpc, listed, task, doneq, awaited, all_pokemon_data, arrival, cReturned, fileVars, storeVars, queryVars, screen, uiVars>>

\* fetch_with_semaphore: a waiting task enters "async with sem" and calls get_pokemon_details
SemAcquire ==
    /\ cWaiting > 0
    /\ sem > 0
    /\ sem' = sem - 1
    /\ cWaiting' = cWaiting - 1
    /\ cRunning' = cRunning + 1
    /\ UNCHANGED <<fpc, listed, task, doneq, awaited, all_pokemon_data, arrival, cReturned, fileVars, storeVars, queryVars, screen, uiVars>>

\* fetch_with_semaphore: get_pokemon_details returns and the block is left
SemReturn ==
    /\ cRunning > 0
    /\ sem' = sem + 1
    /\ cRunning' = cRunning - 1
    /\ cReturned' = cReturned + 1
    /\ UNCHANGED <<fpc, listed, task, doneq, awaited, all_pokemon_data, arrival, cWaiting, fileVars, storeVars, queryVars, screen, uiVars>>

(***************************************************************************)
(* Files under data/.                                                      *)
(***************************************************************************)
FileInit ==
    /\ dataDir = FALSE
    /\ jsonFile = [state |-> "absent", content |-> <<>>]

(***************************************************************************)
(* The records a data/dex.json can hold: what pull_data wrote from what    *)
(* the API served.                                                         *)
(***************************************************************************)
\* JSON null (Python's None) where a type or ability name is expected
JsonNull == "<null>"

Mew == <<"m", "e", "w">>
Muk == <<"M", "u", "k">>
Abra == <<"a", "b", "r", "a">>

FullStats(n) ==
    ("hp" :> n) @@ ("attack" :> n + 1) @@ ("defense" :> n + 2)
    @@ ("special-attack" :> n + 3) @@ ("special-defense" :> n + 4) @@ ("speed" :> n + 5)

RecMew ==
    [id |-> 1, name |-> Mew, types |-> <<"grass", "poison">>, abilities |-> <<"overgrow">>,
     height |-> 4, weight |-> 40, stats |-> FullStats(100),
     flavor_text |-> "so rare", ascii_art |-> "art of mew"]

\* the same item fetched again later: other measures, no speed stat, no art
RecMewLater ==
    [id |-> 1, name |-> Mew, types |-> <<"psychic">>, abilities |-> <<"overgrow">>,
     height |-> 5, weight |-> 41, stats |-> ("hp" :> 110) @@ ("attack" :> 111),
     flavor_text |-> "so rare", ascii_art |-> ArtNotAvailable]

RecMuk ==
    [id |-> 2, name |-> Muk, types |-> <<"poison">>, abilities |-> <<"stench", "overgrow">>,
     height |-> 12, weight |-> 300, stats |-> FullStats(50),
     flavor_text |-> "sludge", ascii_art |-> "art of muk"]

\* another identifier under a name that is taken
RecMewTwo ==
    [id |-> 2, name |-> Mew, types |-> <<"psychic">>, abilities |-> <<"stench">>,
     height |-> 20, weight |-> 1220, stats |-> FullStats(150),
     flavor_text |-> "created", ascii_art |-> "art of mewtwo"]

\* a record the loader cannot process to the end: a null among its type names
RecAbra ==
    [id |-> 3, name |-> Abra, types |-> <<"psychic", JsonNull>>, abilities |-> <<"overgrow">>,
     height |-> 9, weight |-> 195, stats |-> FullStats(25),
     flavor_text |-> "sleeps", ascii_art |-> "art of abra"]

StoreRecords == {RecMew, RecMewLater, RecMuk, RecMewTwo, RecAbra}

\* the arrays pull_data.main can write: sorted by id
Files ==
    {f \in UNION {[1..n -> StoreRecords] : n \in 0..MaxFileLen} :
        \A i \in 1..Len(f) : \A j \in 1..Len(f) : i < j => f[i].id <= f[j].id}

(***************************************************************************)
(* The relational store: database.py.                                      *)
(***************************************************************************)
\* a database file sqlite3.connect has just created: no table
EmptyDb ==
    [schema |-> FALSE,
     pokemon |-> {}, pokemon_app_data |-> {}, stats |-> {},
     types |-> {}, abilities |-> {}, pokemon_types |-> {}, pokemon_abilities |-> {},
     type_seq |-> 0, ability_seq |-> 0]

StoreInit ==
    /\ dbFile = FALSE
    /\ db = EmptyDb
    /\ ended = "none"
    /\ runs = 0
    /\ seen = {}

\* dict.get(key, default)
Get(d, key, default) == IF key \in DOMAIN d THEN d[key] ELSE default

\* the row the loader binds for the pokemon table
PokemonRow(r) ==
    [id |-> r.id, name |-> r.name, height |-> r.height, weight |-> r.weight,
     flavor_text |-> Get(r, "flavor_text", ""), ascii_art |-> Get(r, "ascii_art", "")]

\* the row the loader binds for the stats table
StatsRow(r) ==
    [pokemon_id |-> r.id,
     hp |-> Get(r.stats, "hp", 0), attack |-> Get(r.stats, "attack", 0),
     defense |-> Get(r.stats, "defense", 0),
     special_attack |-> Get(r.stats, "special-attack", 0),
     special_defense |-> Get(r.stats, "special-defense", 0),
     speed |-> Get(r.stats, "speed", 0)]

\* the row of pokemon_app_data with its column defaults
AppDataRow(r) == [pokemon_id |-> r.id, is_favorite |-> 0, search_count |-> 0]

\* the caches pre-filled from the lookup tables, before BEGIN
Begin(d) ==
    [db |-> d,
     type_id_cache |-> [n \in {t.name : t \in d.types} |->
                           (CHOOSE t \in d.types : t.name = n).id],
     ability_id_cache |-> [n \in {a.name : a \in d.abilities} |->
                              (CHOOSE a \in d.abilities : a.name = n).id],
     err |-> FALSE]

\* a version of InsertOrIgnorePokemon that is a plain INSERT: a conflict is an error
InsertPokemon(st, r) ==
    IF \E p \in st.db.pokemon : p.id = r.id \/ p.name = r.name
    THEN [st EXCEPT !.err = TRUE]
    ELSE [st EXCEPT !.db.pokemon = @ \cup {PokemonRow(r)}]

\* INSERT OR IGNORE INTO pokemon: id is the primary key, name is UNIQUE
InsertOrIgnorePokemon(st, r) ==
    IF \E p \in st.db.pokemon : p.id = r.id \/ p.name = r.name
    THEN st
    ELSE [st EXCEPT !.db.pokemon = @ \cup {PokemonRow(r)}]

\* INSERT OR IGNORE INTO pokemon_app_data: pokemon_id is the primary key
InsertOrIgnoreAppData(st, r) ==
    IF \E a \in st.db.pokemon_app_data : a.pokemon_id = r.id
    THEN st
    ELSE [st EXCEPT !.db.pokemon_app_data = @ \cup {AppDataRow(r)}]

\* a version of InsertOrIgnoreStats that is INSERT OR REPLACE: the row is overwritten
InsertOrReplaceStats(st, r) ==
    [st EXCEPT !.db.stats = {x \in @ : x.pokemon_id # r.id} \cup {StatsRow(r)}]

\* INSERT OR IGNORE INTO stats: pokemon_id is the primary key
InsertOrIgnoreStats(st, r) ==
    IF \E x \in st.db.stats : x.pokemon_id = r.id
    THEN st
    ELSE [st EXCEPT !.db.stats = @ \cup {StatsRow(r)}]

\* a version of InsertType whose cached id is the lastrowid of the statement before
InsertTypeStaleRowId(st, name) ==
    IF name = JsonNull \/ \E t \in st.db.types : t.name = name
    THEN [st EXCEPT !.err = TRUE]
    ELSE [st EXCEPT !.db.types = @ \cup {[id |-> st.db.type_seq + 1, name |-> name]},
                    !.db.type_seq = @ + 1,
                    !.type_id_cache = (name :> st.db.type_seq) @@ @]

\* INSERT INTO types (name), the new id cached: name is UNIQUE NOT NULL, id AUTOINCREMENT
InsertType(st, name) ==
    IF name = JsonNull \/ \E t \in st.db.types : t.name = name
    THEN [st EXCEPT !.err = TRUE]
    ELSE [st EXCEPT !.db.types = @ \cup {[id |-> st.db.type_seq + 1, name |-> name]},
                    !.db.type_seq = @ + 1,
                    !.type_id_cache = (name :> st.db.type_seq + 1) @@ @]

\* INSERT INTO abilities (name), the new id cached
InsertAbility(st, name) ==
    IF name = JsonNull \/ \E a \in st.db.abilities : a.name = name
    THEN [st EXCEPT !.err = TRUE]
    ELSE [st EXCEPT !.db.abilities = @ \cup {[id |-> st.db.ability_seq + 1, name |-> name]},
                    !.db.ability_seq = @ + 1,
                    !.ability_id_cache = (name :> st.db.ability_seq + 1) @@ @]

\* "4. Handle Types": the loop over pokemon['types']
RECURSIVE HandleTypes(_, _, _)
HandleTypes(st, r, names) ==
    IF names = <<>> \/ st.err THEN st
    ELSE LET name == Head(names)
             s1 == IF name \in DOMAIN st.type_id_cache THEN st ELSE InsertType(st, name)
         IN  IF s1.err THEN s1
             ELSE HandleTypes(
                      [s1 EXCEPT !.db.pokemon_types =
                           @ \cup {[pokemon_id |-> r.id, type_id |-> s1.type_id_cache[name]]}],
                      r, Tail(names))

\* "5. Handle Abilities": the loop over pokemon['abilities']
RECURSIVE HandleAbilities(_, _, _)
HandleAbilities(st, r, names) ==
    IF names = <<>> \/ st.err THEN st
    ELSE LET name == Head(names)
             s1 == IF name \in DOMAIN st.ability_id_cache THEN st ELSE InsertAbility(st, name)
         IN  IF s1.err THEN s1
             ELSE HandleAbilities(
                      [s1 EXCEPT !.db.pokemon_abilities =
                           @ \cup {[pokemon_id |-> r.id,
                                    ability_id |-> s1.ability_id_cache[name]]}],
                      r, Tail(names))

\* the body of the loop over the file's records
LoadRecord(st, r) ==
    HandleAbilities(
        HandleTypes(
            InsertOrIgnoreStats(InsertOrIgnoreAppData(InsertOrIgnorePokemon(st, r), r), r),
            r, r.types),
        r, r.abilities)

\* "for pokemon in all_pokemon_data", left at the first error
RECURSIVE LoadAll(_, _)
LoadAll(st, records) ==
    IF records = <<>> \/ st.err THEN st
    ELSE LoadAll(LoadRecord(st, Head(records)), Tail(records))

\* a version of EndTransaction that commits what was done before the error
EndTransactionKeepingPartial(before, st) == st.db

\* COMMIT, or ROLLBACK in the except branch
EndTransaction(before, st) == IF st.err THEN before ELSE st.db

Range(f) == {f[i] : i \in DOMAIN f}

\* what a run of pull_data.main leaves, as the loader sees it: data/ exists and
\* dex.json holds f
RunPullData(f) ==
    /\ dataDir' = TRUE
    /\ jsonFile' = [state |-> "valid", content |-> f]
    /\ runs' = IF jsonFile = jsonFile' THEN runs ELSE 0
    /\ NoCall
    /\ UNCHANGED <<fetchVars, semVars, dbFile, db, ended, seen, screen>>

\* a run of pull_data.main from the command line
PullData(f) == RunPullData(f) /\ UNCHANGED uiVars

\* a run of pull_data.main that is killed inside json.dump: open(.., "w") has
\* truncated the file
PullDataInterrupted ==
    /\ dataDir' = TRUE
    /\ jsonFile' = [state |-> "corrupt", content |-> <<>>]
    /\ runs' = IF jsonFile = jsonFile' THEN runs ELSE 0
    /\ NoCall
    /\ UNCHANGED <<fetchVars, semVars, dbFile, db, ended, seen, screen, uiVars>>

\* create_tables: CREATE TABLE IF NOT EXISTS on a connection that creates the file;
\* sqlite3.connect raises when data/ is missing
CallCreateTables ==
    /\ IF dataDir
       THEN /\ dbFile' = TRUE
            /\ db' = [db EXCEPT !.schema = TRUE]
            /\ runs' = IF db.schema THEN runs ELSE 0
       ELSE UNCHANGED <<dbFile, db, runs>>
    /\ NoCall
    /\ UNCHANGED <<fetchVars, semVars, fileVars, ended, seen, screen>>

\* create_tables, run from manage_db.py
create_tables == CallCreateTables /\ UNCHANGED uiVars

\* populate_db_from_json
CallPopulateDbFromJson ==
    /\ runs' = IF runs < 2 THEN runs + 1 ELSE 2
    /\ IF jsonFile.state = "absent"
       THEN \* "not found. Cannot populate database."
            /\ ended' = "no_json"
            /\ UNCHANGED <<dbFile, db, seen>>
       ELSE IF ~dataDir
       THEN \* sqlite3.connect raises
            /\ ended' = "raised"
            /\ UNCHANGED <<dbFile, db, seen>>
       ELSE /\ dbFile' = TRUE
            /\ IF jsonFile.state = "corrupt" \/ ~db.schema
               THEN \* json.load or the SELECT that fills the caches raises, before the try
                    /\ ended' = "raised"
                    /\ UNCHANGED <<db, seen>>
               ELSE LET st == LoadAll(Begin(db), jsonFile.content)
                    IN  /\ db' = EndTransaction(db, st)
                        /\ ended' = IF st.err THEN "rolledback" ELSE "committed"
                        /\ seen' = IF st.err THEN seen ELSE seen \cup Range(jsonFile.content)
    /\ NoCall
    /\ UNCHANGED <<fetchVars, semVars, fileVars, screen>>

\* populate_db_from_json, run from manage_db.py
populate_db_from_json == CallPopulateDbFromJson /\ UNCHANGED uiVars

\* manage_db.rebuild_database: os.remove(DB_PATH)
RemoveDb ==
    /\ dbFile
    /\ dbFile' = FALSE
    /\ db' = EmptyDb
    /\ runs' = 0
    /\ seen' = {}
    /\ NoCall
    /\ UNCHANGED <<fetchVars, semVars, fileVars, ended, screen, uiVars>>

(***************************************************************************)
(* The query layer: backend.py.                                            *)
(***************************************************************************)
QueryInit ==
    /\ qcall = "none"
    /\ qin = <<>>
    /\ qres = None

\* the arguments tried: an id as text, an id with a leading zero, 1773, names in
\* other cases than the stored ones
Inputs ==
    {<<"1">>, <<"0", "1">>, <<"1", "7", "7", "3">>,
     <<"M", "E", "W">>, <<"m", "u", "k">>, <<"a", "b", "r", "a">>}

\* the generator states a call can meet: random is used for "1773" alone
Seeds(input) == IF input = <<"1", "7", "7", "3">> THEN 1..RandSeeds ELSE {1}

DB_ERROR_MESSAGE ==
    "Database error. Please run 'uv run src/manage_db.py rebuild' to create or rebuild the database."

\* random.randint(a, b): a value of a..b that the generator's state picks
RandInt(seed, a, b) == a + ((seed * 37) % (b - a + 1))

\* the entry returned for "1773", whatever the store holds
Definery(seed) ==
    [name |-> <<"D", "e", "f", "i", "n", "e", "r", "y">>, id |-> 1773,
     types |-> <<"dark">>, abilities |-> <<"thief">>,
     height |-> RandInt(seed, 1, 100), weight |-> RandInt(seed + 1, 1, 2000),
     stats |-> ("hp" :> RandInt(seed + 2, 1, 255)) @@ ("attack" :> RandInt(seed + 3, 1, 255))
               @@ ("defense" :> RandInt(seed + 4, 1, 255))
               @@ ("special-attack" :> RandInt(seed + 5, 1, 255))
               @@ ("special-defense" :> RandInt(seed + 6, 1, 255))
               @@ ("speed" :> RandInt(seed + 7, 1, 255)),
     flavor_text |-> "sonned by all"]

IsDigit(c) == \E d \in 1..10 : Digits[d] = c

DigitValue(c) == (CHOOSE d \in 1..10 : Digits[d] = c) - 1

\* the integer SQLite's numeric affinity makes of a text of digits
RECURSIVE ToInt(_)
ToInt(s) == IF s = <<>> THEN 0
            ELSE 10 * ToInt(SubSeq(s, 1, Len(s) - 1)) + DigitValue(s[Len(s)])

\* "p.id = ?" with a text parameter: the INTEGER column gives the text numeric
\* affinity, and a text that is no number equals no id
SqlIdEquals(id, param) ==
    /\ param # <<>>
    /\ \A i \in 1..Len(param) : IsDigit(param[i])
    /\ ToInt(param) = id

\* "WHERE p.id = ? OR lower(p.name) = ?" with the lower-cased argument bound twice
SqlMatches(d, param) ==
    {p \in d.pokemon : SqlIdEquals(p.id, param) \/ Lower(p.name) = param}

\* the rows of a table in ascending order of the column key
RECURSIVE OrderedBy(_, _)
OrderedBy(rows, key) ==
    IF rows = {} THEN <<>>
    ELSE LET first == CHOOSE x \in rows : \A y \in rows : x[key] <= y[key]
         IN  <<first>> \o OrderedBy(rows \ {first}, key)

\* GROUP_CONCAT(t.name) over the types linked to an id, then split(',')
TypeNames(d, id) ==
    LET links == OrderedBy({l \in d.pokemon_types : l.pokemon_id = id}, "type_id")
    IN  [k \in 1..Len(links) |-> (CHOOSE t \in d.types : t.id = links[k].type_id).name]

\* GROUP_CONCAT(a.name) over the abilities linked to an id, then split(',')
AbilityNames(d, id) ==
    LET links == OrderedBy({l \in d.pokemon_abilities : l.pokemon_id = id}, "ability_id")
    IN  [k \in 1..Len(links) |-> (CHOOSE a \in d.abilities : a.id = links[k].ability_id).name]

\* the columns of stats that the LEFT JOIN adds to a pokemon row: NULL when there is none
JoinedStats(d, id) ==
    IF \E x \in d.stats : x.pokemon_id = id
    THEN LET x == CHOOSE y \in d.stats : y.pokemon_id = id
         IN  ("hp" :> x.hp) @@ ("attack" :> x.attack) @@ ("defense" :> x.defense)
             @@ ("special-attack" :> x.special_attack)
             @@ ("special-defense" :> x.special_defense) @@ ("speed" :> x.speed)
    ELSE ("hp" :> JsonNull) @@ ("attack" :> JsonNull) @@ ("defense" :> JsonNull)
         @@ ("special-attack" :> JsonNull) @@ ("special-defense" :> JsonNull)
         @@ ("speed" :> JsonNull)

\* the dict get_dex_entry builds from the row it fetched
RowEntry(d, p) ==
    [name |-> Capitalize(p.name), id |-> p.id,
     types |-> TypeNames(d, p.id), abilities |-> AbilityNames(d, p.id),
     height |-> p.height, weight |-> p.weight,
     stats |-> JoinedStats(d, p.id),
     flavor_text |-> p.flavor_text, ascii_art |-> p.ascii_art]

\* the values get_dex_entry can return from the store: built from a row that matches, or
\* the not-found error
StoreEntries(d, input) ==
    IF SqlMatches(d, Lower(input)) = {}
    THEN {[error |-> [text |-> "Entry '{name_or_id}' not found.", name_or_id |-> input]]}
    ELSE {RowEntry(d, p) : p \in SqlMatches(d, Lower(input))}

\* the except branch of get_dex_entry: the first record of data/dex.json that matches
JsonEntry(input) ==
    IF jsonFile.state # "valid"
    THEN [error |-> [text |-> DB_ERROR_MESSAGE, name_or_id |-> <<>>]]
    ELSE LET hits == {i \in DOMAIN jsonFile.content :
                         \/ Str(jsonFile.content[i].id) = Lower(input)
                         \/ Lower(jsonFile.content[i].name) = Lower(input)}
         IN  IF hits = {}
             THEN [error |-> [text |-> "Entry '{name_or_id}' not found in JSON fallback.",
                              name_or_id |-> input]]
             ELSE jsonFile.content[CHOOSE i \in hits : \A j \in hits : i <= j]

\* the except branch of get_all_pokemon
JsonList ==
    IF jsonFile.state # "valid"
    THEN <<>>
    ELSE [i \in DOMAIN jsonFile.content |->
              [id |-> jsonFile.content[i].id, name |-> jsonFile.content[i].name]]

\* "SELECT id, name FROM pokemon ORDER BY id LIMIT 1025"
StoreList(d) ==
    LET rows == OrderedBy(d.pokemon, "id")
    IN  [i \in 1..Len(rows) |-> [id |-> rows[i].id, name |-> rows[i].name]]

\* get_db_connection inside the try of a query: sqlite3.connect raises when data/ is
\* missing and creates data/pokedex.db when the file is missing
Connect == dbFile' = (dbFile \/ dataDir)

\* what a call of get_all_pokemon does, whoever calls it
CallGetAllPokemon ==
    /\ qcall' = "get_all_pokemon"
    /\ qin' = <<>>
    /\ Connect
    /\ qres' = IF dataDir /\ db.schema THEN StoreList(db) ELSE JsonList
    /\ UNCHANGED <<fetchVars, semVars, fileVars, db, ended, runs, seen, screen>>

\* get_all_pokemon, called from outside the screens
get_all_pokemon == CallGetAllPokemon /\ UNCHANGED uiVars

\* what a call of get_dex_entry(name_or_id) does, whoever calls it
CallGetDexEntry(input, seed) ==
    /\ qcall' = "get_dex_entry"
    /\ qin' = input
    /\ IF input = <<"1", "7", "7", "3">>
       THEN /\ qres' = Definery(seed)
            /\ UNCHANGED dbFile
       ELSE /\ Connect
            /\ IF dataDir /\ db.schema
               THEN qres' \in StoreEntries(db, input)
               ELSE qres' = JsonEntry(input)
    /\ UNCHANGED <<fetchVars, semVars, fileVars, db, ended, runs, seen, screen>>

\* get_dex_entry(name_or_id), called from outside the screens
get_dex_entry(input, seed) == CallGetDexEntry(input, seed) /\ UNCHANGED uiVars

(***************************************************************************)
(* The terminal UI: dex_tui.py.                                            *)
(***************************************************************************)
\* DexTUI.on_mount, at each start of the application
on_mount ==
    /\ screen' = IF dbFile THEN "dex" ELSE "setup"
    /\ UNCHANGED <<fetchVars, semVars, fileVars, storeVars, queryVars, uiVars>>

(***************************************************************************)
(* The browse screen: DexScreen of screens.py.  Its two workers run in     *)
(* threads and hand their result to the UI thread with call_from_thread;   *)
(* every handler of the UI thread runs to its end before the next one.     *)
(***************************************************************************)
\* a DexScreen that is not mounted yet
DexScreenInit ==
    /\ loader = "unmounted"
    /\ pokemon_list = <<>>
    /\ all_pokemon = [has |-> FALSE, value |-> <<>>]
    /\ table = <<>>
    /\ search = <<>>
    /\ workers = <<>>
    /\ dex_entry = [text |-> ""]
    /\ art_display = ""

\* what the user types into the search Input
SearchTexts == {<<>>, <<"m">>, <<"M", "U">>, <<"e", "w">>, <<"1">>}

\* "sub in s" on str
Contains(sub, s) ==
    \E i \in 0..(Len(s) - Len(sub)) : SubSeq(s, i + 1, i + Len(sub)) = sub

\* table.add_row(pokemon["id"], pokemon["name"].capitalize())
TableRow(p) == [id |-> p.id, name |-> Capitalize(p.name)]

\* DexScreen.on_mount: the table gets its columns and the list worker starts
DexScreen_on_mount ==
    /\ screen = "dex"
    /\ loader = "unmounted"
    /\ loader' = "running"
    /\ UNCHANGED <<pokemon_list, all_pokemon, table, search, workers, dex_entry, art_display>>
    /\ UNCHANGED <<fetchVars, semVars, fileVars, storeVars, queryVars, screen, setupVars>>

\* load_initial_data, in its thread: the call of get_all_pokemon; the result waits in
\* call_from_thread
load_initial_data ==
    /\ loader = "running"
    /\ CallGetAllPokemon
    /\ pokemon_list' = qres'
    /\ loader' = "posted"
    /\ UNCHANGED <<all_pokemon, table, search, workers, dex_entry, art_display, setupVars>>

\* update_pokemon_table, on the UI thread
update_pokemon_table ==
    /\ loader = "posted"
    /\ loader' = "done"
    /\ all_pokemon' = [has |-> TRUE, value |-> pokemon_list]
    /\ table' = table \o [i \in 1..Len(pokemon_list) |-> TableRow(pokemon_list[i])]
    /\ UNCHANGED <<pokemon_list, search, workers, dex_entry, art_display>>
    /\ UNCHANGED <<fetchVars, semVars, fileVars, storeVars, queryVars, screen, setupVars>>

\* on_input_changed: the Input has the new value and posts Input.Changed
on_input_changed(value) ==
    /\ loader # "unmounted"
    /\ search' = value
    /\ IF ~all_pokemon.has \/ all_pokemon.value = <<>>
       THEN UNCHANGED table
       ELSE LET search_term == Lower(value)
                hits == SelectSeq(all_pokemon.value,
                                  LAMBDA p : \/ Contains(search_term, Lower(p.name))
                                             \/ search_term = Str(p.id))
            IN  table' = [i \in 1..Len(hits) |-> TableRow(hits[i])]
    /\ UNCHANGED <<loader, pokemon_list, all_pokemon, workers, dex_entry, art_display>>
    /\ UNCHANGED <<fetchVars, semVars, fileVars, storeVars, queryVars, screen, setupVars>>

\* action_select_pokemon with the cursor on a row: run_worker(.., exclusive=True) cancels
\* the workers that have not finished, which does not stop their threads
action_select_pokemon(row) ==
    /\ loader # "unmounted"
    /\ Len(workers) < MaxSelections
    /\ row \in 1..Len(table)
    /\ dex_entry' = [text |-> "Loading..."]
    /\ art_display' = ""
    /\ workers' = Append([w \in DOMAIN workers |->
                             IF workers[w].state = "delivered" THEN workers[w]
                             ELSE [workers[w] EXCEPT !.cancelled = TRUE]],
                         [entry_id |-> table[row].id, state |-> "running",
                          data |-> None, cancelled |-> FALSE])
    /\ UNCHANGED <<loader, pokemon_list, all_pokemon, table, search>>
    /\ UNCHANGED <<fetchVars, semVars, fileVars, storeVars, queryVars, screen, setupVars>>

\* fetch_pokemon_data, in its thread: the call of get_dex_entry; the result waits in
\* call_from_thread
fetch_pokemon_data(w) ==
    /\ w \in DOMAIN workers
    /\ workers[w].state = "running"
    /\ CallGetDexEntry(Str(workers[w].entry_id), 1)
    /\ workers' = [workers EXCEPT ![w].state = "posted", ![w].data = qres']
    /\ UNCHANGED <<loader, pokemon_list, all_pokemon, table, search, dex_entry, art_display,
                   setupVars>>

\* f"{value / 10.0:.1f}": the whole part and the tenth
OneDecimal(n) == <<n \div 10, n % 10>>

\* DexEntryInfo.update_info
update_info(data) ==
    IF "error" \in DOMAIN data
    THEN [text |-> data.error]
    ELSE [name |-> Get(data, "name", "Unknown"), id |-> Get(data, "id", "N/A"),
          types |-> Get(data, "types", <<>>), abilities |-> Get(data, "abilities", <<>>),
          height_m |-> OneDecimal(Get(data, "height", 0)),
          weight_kg |-> OneDecimal(Get(data, "weight", 0)),
          stats |-> Get(data, "stats", <<>>),
          flavor_text |-> Get(data, "flavor_text", "")]

\* update_dex_entry, on the UI thread, with the result of worker w
update_dex_entry(w) ==
    /\ w \in DOMAIN workers
    /\ workers[w].state = "posted"
    /\ dex_entry' = update_info(workers[w].data)
    /\ art_display' = Get(workers[w].data, "ascii_art", "")
    /\ workers' = [workers EXCEPT ![w].state = "delivered"]
    /\ UNCHANGED <<loader, pokemon_list, all_pokemon, table, search>>
    /\ UNCHANGED <<fetchVars, semVars, fileVars, storeVars, queryVars, screen, setupVars>>

(***************************************************************************)
(* The setup screen: SetupScreen of screens.py, which runs data_pipeline.py *)
(* with --yes as a subprocess and reports its exit code.                   *)
(***************************************************************************)
SetupScreenInit ==
    /\ setup = "idle"
    /\ return_code = 0
    /\ setup_log = "none"
    /\ fetched = FALSE
    /\ loaded = "notrun"

\* SetupScreen.on_mount: the worker of run_setup_process starts the pipeline
SetupScreen_on_mount ==
    /\ screen = "setup"
    /\ setup = "idle"
    /\ setup' = "fetch"
    /\ UNCHANGED <<return_code, setup_log, fetched, loaded>>
    /\ UNCHANGED <<fetchVars, semVars, fileVars, storeVars, queryVars, screen, browseVars>>

\* phase 1 of data_pipeline.main: pull_data.main writes the file
fetch_api_data(f) ==
    /\ setup = "fetch"
    /\ RunPullData(f)
    /\ fetched' = TRUE
    /\ setup' = "create"
    /\ UNCHANGED <<return_code, setup_log, loaded, browseVars>>

\* phase 1 of data_pipeline.main: pull_data.main prints the error of the master list
\* and returns; the pipeline goes on
fetch_api_data_failed ==
    /\ setup = "fetch"
    /\ fetched' = FALSE
    /\ setup' = "create"
    /\ UNCHANGED <<return_code, setup_log, loaded, browseVars>>
    /\ UNCHANGED <<fetchVars, semVars, fileVars, storeVars, queryVars, screen>>

\* phase 2, run_database_population: create_tables; the sqlite3.OperationalError of a
\* missing data/ ends the process with exit code 1
pipeline_create_tables ==
    /\ setup = "create"
    /\ CallCreateTables
    /\ IF dataDir
       THEN setup' = "populate" /\ UNCHANGED return_code
       ELSE setup' = "exited" /\ return_code' = 1
    /\ UNCHANGED <<setup_log, fetched, loaded, browseVars>>

\* phase 2, run_database_population: populate_db_from_json; what it does not catch
\* ends the process with exit code 1, everything else with 0
pipeline_populate ==
    /\ setup = "populate"
    /\ CallPopulateDbFromJson
    /\ loaded' = ended'
    /\ return_code' = IF ended' = "raised" THEN 1 ELSE 0
    /\ setup' = "exited"
    /\ UNCHANGED <<setup_log, fetched, browseVars>>

\* on_setup_complete(process.returncode)
on_setup_complete ==
    /\ setup = "exited"
    /\ setup_log' = IF return_code = 0 THEN "complete" ELSE "failed"
    /\ setup' = "reported"
    /\ UNCHANGED <<return_code, fetched, loaded, browseVars>>
    /\ UNCHANGED <<fetchVars, semVars, fileVars, storeVars, queryVars, screen>>

\* SetupScreen.on_key: 'q' ends the application
on_key ==
    /\ screen = "setup"
    /\ setup = "reported"
    /\ screen' = "none"
    /\ setup' = "idle"
    /\ return_code' = 0
    /\ setup_log' = "none"
    /\ fetched' = FALSE
    /\ loaded' = "notrun"
    /\ UNCHANGED <<fetchVars, semVars, fileVars, storeVars, queryVars, browseVars>>

(***************************************************************************)
(* Specifications.                                                         *)
(***************************************************************************)
Init ==
    /\ FetchInit
    /\ cWaiting = 0 /\ cRunning = 0 /\ cReturned = 0
    /\ FileInit
    /\ StoreInit
    /\ QueryInit
    /\ screen = "none"
    /\ DexScreenInit
    /\ SetupScreenInit

FetchNext ==
    \/ \E n \in 0..NItems : FetchList(n)
    \/ ListFail
    \/ \E u \in 1..listed : Acquire(u)
    \/ \E u \in 1..listed : \E o \in Outcomes : Return(u, o)
    \/ Collect
    \/ WriteFile

\* one run of pull_data.main, every task named
FetchSpec == Init /\ [][FetchNext]_vars

\* the event loop runs every task that can run, and main when it can
FetchFairSpec == FetchSpec /\ WF_vars(FetchNext)

SemNext == SemAcquire \/ SemReturn

\* the state before the first task of a run asks for the semaphore
CountedInit ==
    /\ SemInit /\ FileInit /\ StoreInit /\ QueryInit
    /\ screen = "none" /\ DexScreenInit /\ SetupScreenInit

\* the tasks of one run of pull_data.main, counted; the event loop runs every task
\* that can run
SemSpec == CountedInit /\ [][SemNext]_vars /\ WF_vars(SemAcquire) /\ WF_vars(SemReturn)

StoreNext ==
    \/ \E f \in Files : PullData(f)
    \/ PullDataInterrupted
    \/ create_tables
    \/ populate_db_from_json
    \/ RemoveDb

\* the loader and the files it works on
StoreSpec == Init /\ [][StoreNext]_vars

QueryStep ==
    \/ get_all_pokemon
    \/ \E input \in Inputs : \E seed \in Seeds(input) : get_dex_entry(input, seed)

QueryNext ==
    \/ StoreNext
    \/ QueryStep

\* the query layer over the files and the store the pipeline leaves
QuerySpec == Init /\ [][QueryNext]_vars

StartNext ==
    \/ StoreNext
    \/ get_all_pokemon
    \/ get_dex_entry(<<"1">>, 1)
    \/ on_mount

\* starts of the UI, between runs of the pipeline and calls of the query layer
StartSpec == Init /\ [][StartNext]_vars

\* the files behind a session of the browse screen
BrowseFiles == {<<>>, <<RecMew>>, <<RecMew, RecMuk>>}

\* the app has started on the browse screen: pull_data wrote a file and either the
\* loader has filled the store from it, or data/pokedex.db is the empty file a query
\* left behind
BrowseInit ==
    /\ FetchInit
    /\ cWaiting = 0 /\ cRunning = 0 /\ cReturned = 0
    /\ dataDir = TRUE
    /\ \E f \in BrowseFiles :
          /\ jsonFile = [state |-> "valid", content |-> f]
          /\ \/ /\ db = LoadAll(Begin([EmptyDb EXCEPT !.schema = TRUE]), f).db
                /\ ended = "committed"
                /\ runs = 1
                /\ seen = Range(f)
             \/ /\ db = EmptyDb
                /\ ended = "none"
                /\ runs = 0
                /\ seen = {}
    /\ dbFile = TRUE
    /\ QueryInit
    /\ screen = "dex"
    /\ DexScreenInit
    /\ SetupScreenInit

BrowseNext ==
    \/ DexScreen_on_mount
    \/ load_initial_data
    \/ update_pokemon_table
    \/ \E value \in SearchTexts : on_input_changed(value)
    \/ \E row \in 1..Len(table) : action_select_pokemon(row)
    \/ \E w \in DOMAIN workers : fetch_pokemon_data(w)
    \/ \E w \in DOMAIN workers : update_dex_entry(w)

\* one session of the browse screen
BrowseSpec == BrowseInit /\ [][BrowseNext]_vars

SetupNext ==
    \/ screen = "none" /\ on_mount
    \/ SetupScreen_on_mount
    \/ \E f \in Files : fetch_api_data(f)
    \/ fetch_api_data_failed
    \/ pipeline_create_tables
    \/ pipeline_populate
    \/ on_setup_complete
    \/ on_key
    \/ screen = "none" /\ RemoveDb
    \/ screen = "none" /\ PullDataInterrupted

\* starts of the app from a fresh checkout, each on the setup screen running the
\* pipeline to its end; between them the user deletes data/pokedex.db, or a run of
\* pull_data from the command line is killed
SetupSpec == Init /\ [][SetupNext]_vars

(***************************************************************************)
(* Claims about the fetch stage.                                           *)
(***************************************************************************)
Succeeded(u) == task[u] \in {"no_sprite", "art_error", "ok"}
Failed(u) == task[u] \in {"detail_error", "species_error"}

\* C1: whatever the order in which the tasks complete, the array written to
\* data/dex.json is sorted by ascending id.
C1_WrittenFileSortedById ==
    fpc = "written" =>
        /\ jsonFile.state = "valid"
        /\ \A i \in 1..Len(jsonFile.content) : \A j \in 1..Len(jsonFile.content) :
               i < j => jsonFile.content[i].id <= jsonFile.content[j].id

\* C1 witness: the file was written after tasks that succeeded completed out of id order
C1_Witness ==
    /\ fpc = "written"
    /\ Len(jsonFile.content) >= 2
    /\ \E i \in 1..Len(arrival) : \E j \in 1..Len(arrival) :
           /\ i < j
           /\ arrival[i] > arrival[j]
           /\ Succeeded(arrival[i])
           /\ Succeeded(arrival[j])

C2_FileHoldsTheSuccesses ==
    fpc = "written" =>
        /\ jsonFile.state = "valid"
        /\ Len(jsonFile.content) = Cardinality({u \in 1..listed : Succeeded(u)})
        /\ \A u \in 1..listed :
               /\ Succeeded(u) =>
                      \E i \in 1..Len(jsonFile.content) :
                          jsonFile.content[i] =
                              [ApiRecord(u) EXCEPT !.ascii_art =
                                   IF task[u] = "ok" THEN "art" ELSE ArtNotAvailable]
               /\ Failed(u) =>
                      \A i \in 1..Len(jsonFile.content) : jsonFile.content[i].id # u

\* C2: once the master list was fetched the run ends with the file written, whichever
\* per-item fetches fail; the file holds exactly one record per item whose detail and
\* species requests succeeded, none for an item one of them failed for, and the record
\* of an item whose sprite step alone failed carries the placeholder art.
C2_PartialFailureTolerated ==
    /\ [](C2_FileHoldsTheSuccesses /\ (fpc = "aborted" => listed = 0 /\ task = <<>>))
    /\ (fpc = "gather") ~> (fpc = "written")

\* C2 witness: a file written after one item failed, one lost only its art and one
\* succeeded fully
C2_Witness ==
    /\ fpc = "written"
    /\ \E u \in 1..listed : Failed(u)
    /\ \E u \in 1..listed : task[u] = "art_error"
    /\ \E u \in 1..listed : task[u] = "ok"

\* C3: at most SemLimit (50) calls of get_pokemon_details are in progress at any time,
\* however long the master list, and every listed item's fetch is eventually started
\* and completed.
C3_BoundedConcurrencyAndProgress ==
    /\ [](cRunning <= SemLimit /\ sem >= 0 /\ sem + cRunning = SemLimit)
    /\ <>(cWaiting = 0 /\ cRunning = 0)

\* C3 witness: the semaphore is exhausted while tasks wait and others have returned
C3_Witness ==
    /\ cRunning = SemLimit
    /\ cWaiting > 0
    /\ cReturned > 0
(***************************************************************************)
(* Claims about the loader.                                                *)
(***************************************************************************)
Content == jsonFile.content

\* processing r raises: a null name meets NOT NULL in types or abilities
RecordRaises(r) ==
    \/ \E i \in DOMAIN r.types : r.types[i] = JsonNull
    \/ \E i \in DOMAIN r.abilities : r.abilities[i] = JsonNull

\* the load went as far as its transaction
LoadRuns == populate_db_from_json /\ jsonFile.state = "valid" /\ db.schema

\* C4: a load run again on the same file and store leaves every table (and
\* sqlite_sequence) as the first run left it and ends as the first run ended: a load
\* that committed commits again, no uniqueness error is raised.
C4_ReloadIsIdempotent ==
    [][(populate_db_from_json /\ runs >= 1)
         => (db' = db /\ dbFile' = dbFile /\ ended' = ended)]_vars

\* C4 witness: the load has committed twice in a row on one file, over a store that
\* earlier loads of other files had filled
C4_Witness ==
    /\ runs = 2
    /\ ended = "committed"
    /\ Len(Content) >= 1
    /\ db.pokemon_types # {}
    /\ \E r \in seen : r \notin Range(Content)

\* C5: the load is one transaction. When a record of the file raises, the load is
\* rolled back and the store is as it was before the load; when none does, the load
\* commits and every record of the file has its stats, app-data and link rows.
C5_SingleTransaction ==
    [][LoadRuns =>
         IF \E i \in DOMAIN Content : RecordRaises(Content[i])
         THEN ended' = "rolledback" /\ db' = db
         ELSE /\ ended' = "committed"
              /\ \A i \in DOMAIN Content :
                     /\ \E x \in db'.stats : x.pokemon_id = Content[i].id
                     /\ \E a \in db'.pokemon_app_data : a.pokemon_id = Content[i].id
                     /\ \A k \in DOMAIN Content[i].types :
                            \E t \in db'.types :
                                /\ t.name = Content[i].types[k]
                                /\ [pokemon_id |-> Content[i].id, type_id |-> t.id]
                                       \in db'.pokemon_types]_vars

\* C5 witness: a load was rolled back after it had processed a record that was new to
\* the store, and nothing of that record is in the store, which holds older rows
C5_Witness ==
    /\ runs >= 1
    /\ ended = "rolledback"
    /\ Len(Content) = 2
    /\ ~RecordRaises(Content[1])
    /\ RecordRaises(Content[2])
    /\ \A x \in db.stats : x.pokemon_id # Content[1].id
    /\ \A p \in db.pokemon : p.id # Content[1].id /\ p.name # Content[1].name
    /\ db.pokemon # {}

SeenTypes == UNION {Range(r.types) : r \in seen}
SeenAbilities == UNION {Range(r.abilities) : r \in seen}

\* C6: no two pokemon rows share an id or a name; types and abilities hold exactly one
\* row per name the committed loads have seen; the link rows of a record's id are those
\* of the lookup rows named by the record's type and ability strings.
C6_UniqueAndNormalized ==
    /\ \A p \in db.pokemon : \A q \in db.pokemon : (p.id = q.id \/ p.name = q.name) => p = q
    /\ \A t \in db.types : \A u \in db.types : (t.id = u.id \/ t.name = u.name) => t = u
    /\ \A a \in db.abilities : \A b \in db.abilities : (a.id = b.id \/ a.name = b.name) => a = b
    /\ {t.name : t \in db.types} = SeenTypes
    /\ {a.name : a \in db.abilities} = SeenAbilities
    /\ \A r \in seen :
           /\ \A k \in DOMAIN r.types :
                  \E t \in db.types :
                      /\ t.name = r.types[k]
                      /\ [pokemon_id |-> r.id, type_id |-> t.id] \in db.pokemon_types
           /\ \A k \in DOMAIN r.abilities :
                  \E a \in db.abilities :
                      /\ a.name = r.abilities[k]
                      /\ [pokemon_id |-> r.id, ability_id |-> a.id] \in db.pokemon_abilities
    /\ \A l \in db.pokemon_types :
           \E r \in seen : \E k \in DOMAIN r.types : \E t \in db.types :
               r.id = l.pokemon_id /\ t.id = l.type_id /\ t.name = r.types[k]
    /\ \A l \in db.pokemon_abilities :
           \E r \in seen : \E k \in DOMAIN r.abilities : \E a \in db.abilities :
               r.id = l.pokemon_id /\ a.id = l.ability_id /\ a.name = r.abilities[k]

\* C6 witness: after more than one load, two records share one row of types
C6_Witness ==
    /\ Cardinality(seen) >= 3
    /\ Cardinality(db.types) >= 3
    /\ \E l \in db.pokemon_types : \E m \in db.pokemon_types :
           l.type_id = m.type_id /\ l.pokemon_id # m.pokemon_id

DistinctRecords ==
    \A i \in DOMAIN Content : \A j \in DOMAIN Content :
        i # j => Content[i].id # Content[j].id /\ Content[i].name # Content[j].name

\* C7 as stated, for a file whose records differ in id and name: after a load that
\* committed, every record of the file is in pokemon and in stats with the file's values.
C7_UpsertAsStated ==
    (runs >= 1 /\ ended = "committed" /\ DistinctRecords) =>
        \A i \in DOMAIN Content :
            /\ PokemonRow(Content[i]) \in db.pokemon
            /\ StatsRow(Content[i]) \in db.stats

\* no row of the store before the load, and no earlier record of the file, has the id
\* or the name of the i-th record
NewPokemon(i) ==
    /\ \A p \in db.pokemon : p.id # Content[i].id /\ p.name # Content[i].name
    /\ \A j \in 1..(i - 1) : Content[j].id # Content[i].id /\ Content[j].name # Content[i].name

NewStats(i) ==
    /\ \A x \in db.stats : x.pokemon_id # Content[i].id
    /\ \A j \in 1..(i - 1) : Content[j].id # Content[i].id

\* C7, amended: the loader inserts and never updates. A load that commits leaves every
\* pokemon and stats row it found unchanged; every record of the file then has a stats
\* row under its id and a pokemon row under its id or its name; the row carries the
\* file's values when neither the store before the load nor an earlier record of the
\* file had that id (for pokemon: that id or that name).
C7_InsertOrIgnore ==
    [][(LoadRuns /\ ended' = "committed") =>
         /\ db.pokemon \subseteq db'.pokemon
         /\ db.stats \subseteq db'.stats
         /\ \A i \in DOMAIN Content :
                /\ \E x \in db'.stats : x.pokemon_id = Content[i].id
                /\ \E p \in db'.pokemon : p.id = Content[i].id \/ p.name = Content[i].name
                /\ NewPokemon(i) => PokemonRow(Content[i]) \in db'.pokemon
                /\ NewStats(i) => StatsRow(Content[i]) \in db'.stats]_vars

\* C7 witness: a committed load of a file that holds a record whose id was in the store
\* with other values, which the store still holds, and a record that was new
C7_Witness ==
    /\ runs = 1
    /\ ended = "committed"
    /\ DistinctRecords
    /\ \E i \in DOMAIN Content :
           /\ PokemonRow(Content[i]) \notin db.pokemon
           /\ StatsRow(Content[i]) \notin db.stats
           /\ \E p \in db.pokemon : p.id = Content[i].id /\ p.name = Content[i].name
    /\ \E i \in DOMAIN Content :
           /\ PokemonRow(Content[i]) \in db.pokemon
           /\ StatsRow(Content[i]) \in db.stats
(***************************************************************************)
(* Claims about the query layer and the start of the UI.                   *)
(***************************************************************************)
\* the store can answer: the connection opens and the tables exist
StoreAnswers == dataDir /\ db.schema

IsError(v) == "error" \in DOMAIN v

\* the stored rows the claim means: the id equals the input, or the name equals it
\* ignoring case
MatchingRows(input) ==
    {p \in db.pokemon : Str(p.id) = input \/ Lower(p.name) = Lower(input)}

\* v is the stored record of row p (its name in any case)
IsRecordOf(v, p) ==
    /\ ~IsError(v)
    /\ v.id = p.id
    /\ Lower(v.name) = Lower(p.name)
    /\ v.height = p.height
    /\ v.weight = p.weight
    /\ v.flavor_text = p.flavor_text
    /\ "ascii_art" \in DOMAIN v
    /\ v.ascii_art = p.ascii_art
    /\ \E x \in db.stats : x.pokemon_id = p.id /\ v.stats = JoinedStats(db, p.id)

DexEntryCall == \E input \in Inputs : \E seed \in Seeds(input) : get_dex_entry(input, seed)

\* C8 as stated: a call of get_dex_entry that the store answers returns the stored
\* record whose id equals the input or whose name equals it ignoring case, and an
\* error value, never a record, when no stored record matches.
C8_FindAsStated ==
    [][(DexEntryCall /\ StoreAnswers) =>
         IF MatchingRows(qin') = {}
         THEN IsError(qres')
         ELSE \E p \in MatchingRows(qin') : IsRecordOf(qres', p)]_vars

\* the records of data/dex.json the claim means
MatchingRecords(input) ==
    {i \in DOMAIN Content :
        Str(Content[i].id) = input \/ Lower(Content[i].name) = Lower(input)}

\* C9 as stated: when the store cannot answer, get_dex_entry and get_all_pokemon answer
\* from data/dex.json by the same matching rule; when the file cannot be read either,
\* get_dex_entry returns the database-error value and get_all_pokemon the empty list.
C9_FallbackAsStated ==
    [][((DexEntryCall \/ get_all_pokemon) /\ ~StoreAnswers) =>
         IF qcall' = "get_dex_entry"
         THEN IF jsonFile.state = "valid"
              THEN IF MatchingRecords(qin') = {}
                   THEN IsError(qres')
                   ELSE \E i \in MatchingRecords(qin') : qres' = Content[i]
              ELSE IsError(qres') /\ qres'.error.text = DB_ERROR_MESSAGE
         ELSE IF jsonFile.state = "valid"
              THEN /\ Len(qres') = Len(Content)
                   /\ \A i \in DOMAIN Content :
                          qres'[i] = [id |-> Content[i].id, name |-> Content[i].name]
              ELSE qres' = <<>>]_vars

\* C10 as stated: on_mount pushes the browse screen exactly when data/pokedex.db
\* exists, and no call of the query layer changes whether it exists.
C10_StartupAsStated ==
    [][/\ on_mount => screen' = (IF dbFile THEN "dex" ELSE "setup")
       /\ (get_all_pokemon \/ get_dex_entry(<<"1">>, 1)) => dbFile' = dbFile]_vars

\* C10: the state the claim rules out: the browse screen is shown over a store that no
\* run of the pipeline has created or filled
C10_BrowseOverEmptyStore ==
    /\ screen = "dex"
    /\ dbFile
    /\ db = EmptyDb
    /\ ended = "none"
(***************************************************************************)
(* Claims about the browse screen.                                         *)
(***************************************************************************)
\* the records of the loaded list that the search text selects, in list order
Selected(list, text) ==
    SelectSeq(list, LAMBDA p : \/ Contains(Lower(text), Lower(p.name))
                               \/ Str(p.id) = text)

\* C11 as stated: once update_pokemon_table has run, the table rows are the loaded
\* records whose name contains the search text ignoring case or whose id in decimal
\* equals it, in list order, whatever the order of input events and the list load.
C11_TableIsTheFilteredList ==
    loader = "done" =>
        LET want == Selected(all_pokemon.value, search)
        IN  /\ Len(table) = Len(want)
            /\ \A i \in 1..Len(want) :
                   table[i].id = want[i].id /\ Lower(table[i].name) = Lower(want[i].name)

\* C11: the list arrived after the user had typed a text that does not select all of it
C11_TypedBeforeLoad ==
    /\ loader = "done"
    /\ search # <<>>
    /\ Len(table) > Len(Selected(all_pokemon.value, search))

\* every fetch that a selection started has handed its result to the UI thread
AllDelivered ==
    /\ workers # <<>>
    /\ \A w \in DOMAIN workers : workers[w].state = "delivered"

\* the worker of the most recent selection
LastSelection == workers[Len(workers)]

\* C12 as stated: once all fetches have finished, the detail pane and the art pane show
\* the entry of the most recently selected row, whatever order the fetches complete in.
C12_LastSelectionShown ==
    AllDelivered =>
        /\ dex_entry = update_info(LastSelection.data)
        /\ art_display = Get(LastSelection.data, "ascii_art", "")

\* C12: the panes show the entry of a row selected earlier, after all fetches finished
C12_EarlierSelectionShown ==
    /\ AllDelivered
    /\ "id" \in DOMAIN dex_entry
    /\ dex_entry.id # LastSelection.entry_id

(***************************************************************************)
(* Claims about the setup screen.                                          *)
(***************************************************************************)
\* the pipeline did what the setup is for: the fetch phase wrote the file and the load
\* phase committed it
PipelineSucceeded == fetched /\ loaded = "committed"

\* a store that makes the next start show the browse screen with nothing in it
EmptyStoreLeft == dbFile /\ db.pokemon = {}

\* C13 as stated: on_setup_complete reports "Setup complete!" only if the pipeline
\* fetched the data and the load committed it; if the fetch phase or the load phase
\* failed the run is reported as failed and no empty store is left behind.
C13_ReportAsStated ==
    [][on_setup_complete =>
         /\ setup_log' = "complete" => PipelineSucceeded
         /\ ~PipelineSucceeded => (setup_log' = "failed" /\ ~EmptyStoreLeft)]_vars

\* C13: "Setup complete!" is on the Log after a run whose fetch phase wrote nothing
C13_CompleteWithoutFetch ==
    /\ setup = "reported"
    /\ setup_log = "complete"
    /\ ~fetched

\* "Setup complete!" is on the Log after a load that was rolled back, over an empty store
C13_CompleteAfterRollback ==
    /\ setup = "reported"
    /\ setup_log = "complete"
    /\ loaded = "rolledback"
    /\ EmptyStoreLeft

\* the run was reported as failed and left a store without rows behind
C13_FailedWithEmptyStore ==
    /\ setup = "reported"
    /\ setup_log = "failed"
    /\ EmptyStoreLeft

(***************************************************************************)
(* Claims about the references between the tables.                         *)
(***************************************************************************)
PokemonIds == {p.id : p \in db.pokemon}

\* the names of the types and of the abilities linked to an identifier
LinkedTypes(id) ==
    {t.name : t \in {t \in db.types :
                        \E l \in db.pokemon_types : l.pokemon_id = id /\ l.type_id = t.id}}

LinkedAbilities(id) ==
    {a.name : a \in {a \in db.abilities :
                        \E l \in db.pokemon_abilities :
                            l.pokemon_id = id /\ l.ability_id = a.id}}

\* C14 as stated: after any loads, every row of stats, pokemon_app_data, pokemon_types
\* and pokemon_abilities refers to an identifier that has a row in pokemon, and the
\* stats and link rows of an identifier are those of the record whose pokemon row is
\* stored.
C14_ReferencesResolve ==
    /\ \A x \in db.stats : x.pokemon_id \in PokemonIds
    /\ \A x \in db.pokemon_app_data : x.pokemon_id \in PokemonIds
    /\ \A l \in db.pokemon_types : l.pokemon_id \in PokemonIds
    /\ \A l \in db.pokemon_abilities : l.pokemon_id \in PokemonIds
    /\ \A p \in db.pokemon :
           \E r \in StoreRecords :
               /\ PokemonRow(r) = p
               /\ \A x \in db.stats : x.pokemon_id = p.id => x = StatsRow(r)
               /\ LinkedTypes(p.id) \subseteq Range(r.types)
               /\ LinkedAbilities(p.id) \subseteq Range(r.abilities)

\* C14: a committed load has left a stats row and a link row of an identifier that has
\* no row in pokemon
C14_RowsWithoutPokemon ==
    /\ ended = "committed"
    /\ \E x \in db.stats : x.pokemon_id \notin PokemonIds
    /\ \E l \in db.pokemon_types : l.pokemon_id \notin PokemonIds
====
